---- MODULE Spec2Model ----
(***************************************************************************)
(* A model of skiplist.c: the four-way linked node graph, the container,   *)
(* and the operations skip_list_insert, skip_list_remove,                  *)
(* skip_list_contains and skip_list_size with the private helpers they     *)
(* call.  Nodes live in a heap addressed by small integers; every public   *)
(* call is one action.                                                     *)
(***************************************************************************)
EXTENDS Integers, Sequences, FiniteSets, TLC

\* ---------------------------------------------------------------- bounds
\* Payloads are the values 0 .. NPayloads-1, cast to pointers as main does.
NPayloads == 3
\* An insert sees at most MaxHeads heads before the first tails.
MaxHeads == 2
\* Inserts are offered while fewer than MaxSize elements are stored.
MaxSize == 3

\* The null pointer; main stores the payload (void *)0, which is NULL too.
NULL == 0

Payload == 0 .. (NPayloads - 1)
Coins == 0 .. MaxHeads
MaxNodes == (MaxSize + 1) * (MaxHeads + 1)
Addr == 1 .. MaxNodes

VARIABLES
    heap,       \* Addr -> struct _sl_node
    allocated,  \* the addresses malloc has handed out and free has not taken back
    sl,         \* struct skip_list
    abs,        \* the mathematical set obtained by replaying the calls
    last,       \* the last public call: its name, argument, result, coin flips
    fault,      \* the memory faults of the calls so far
    pc,         \* where the call in progress stands; "idle" between calls
    frame       \* the local variables of the call in progress

vars == <<heap, allocated, sl, abs, last, fault, pc, frame>>

\* ------------------------------------------------------------ comparison
fifo_gt(a, b) == a > b

\* A comparison on a key held in the payload: the payloads 0 and 1 carry the
\* same key, so these two distinct payloads are order-equal; every other
\* payload has a key of its own.
key(a) == IF a = 0 THEN 1 ELSE a

key_gt(a, b) == key(a) > key(b)

gt_func(f, a, b) == IF f = "fifo_gt" THEN fifo_gt(a, b) ELSE key_gt(a, b)

\* ------------------------------------------------------------------ heap
_sl_node(pn, nn, pl, nl, d) ==
    [_prev_node |-> pn, _next_node |-> nn, _prev_layer |-> pl,
     _next_layer |-> nl, _data |-> d]

\* The content of memory that is not allocated.
Unallocated == _sl_node(NULL, NULL, NULL, NULL, NULL)

\* malloc hands out the lowest address that is not in use.
malloc(h) == CHOOSE a \in Addr \ h.alloc : \A b \in Addr \ h.alloc : a <= b

\* free(n); freeing what is not allocated is recorded as a fault.
free(h, n) ==
    [mem |-> [h.mem EXCEPT ![n] = Unallocated],
     alloc |-> h.alloc \ {n},
     bad |-> h.bad \cup (IF n \in h.alloc THEN {} ELSE {"double_free"})]

\* The nodes in S are read or written through a pointer; reaching memory that
\* is not allocated is recorded as a fault.
deref(h, S) ==
    [h EXCEPT !.bad = h.bad \cup (IF (S \ {NULL}) \subseteq h.alloc
                                  THEN {}
                                  ELSE {"use_after_free"})]

\* --------------------------------------------------------------- helpers
_coin_flip(heads) == IF heads > 0 THEN 1 ELSE 0

\* The scan with the arguments of the comparison exchanged.
RECURSIVE scan_forward_exchanged(_, _, _, _)
scan_forward_exchanged(gt, mem, temp_node, data) ==
    IF mem[temp_node]._next_node # NULL
       /\ gt_func(gt, mem[mem[temp_node]._next_node]._data, data)
    THEN scan_forward_exchanged(gt, mem, mem[temp_node]._next_node, data)
    ELSE temp_node

RECURSIVE _scan_forward(_, _, _, _)
_scan_forward(gt, mem, temp_node, data) ==
    IF mem[temp_node]._next_node # NULL
       /\ gt_func(gt, data, mem[mem[temp_node]._next_node]._data)
    THEN _scan_forward(gt, mem, mem[temp_node]._next_node, data)
    ELSE temp_node

\* The search that scans the level it starts on and never goes down.
find_previous_stays_on_level(gt, mem, current_node, data) ==
    _scan_forward(gt, mem, current_node, data)

RECURSIVE _find_previous(_, _, _, _)
_find_previous(gt, mem, current_node, data) ==
    LET temp_node == _scan_forward(gt, mem, current_node, data)
    IN  IF mem[temp_node]._next_layer = NULL
        THEN temp_node
        ELSE _find_previous(gt, mem, mem[temp_node]._next_layer, data)

\* The deletion that takes the node it is given out of its level and leaves
\* the nodes above it.
delete_node_bottom_only(h, del_sl_node) ==
    IF del_sl_node = NULL
    THEN h
    ELSE LET temp_prev_node == h.mem[del_sl_node]._prev_node
             nxt == h.mem[del_sl_node]._next_node
             m1 == [h.mem EXCEPT ![temp_prev_node]._next_node = nxt]
             m2 == IF nxt # NULL
                   THEN [m1 EXCEPT ![nxt]._prev_node = temp_prev_node]
                   ELSE m1
         IN  free([deref(h, {del_sl_node, temp_prev_node, nxt}) EXCEPT !.mem = m2],
                  del_sl_node)

\* The deletion that leaves the backward link of the node after the deleted one.
RECURSIVE delete_node_keeps_back_link(_, _)
delete_node_keeps_back_link(h, del_sl_node) ==
    IF del_sl_node = NULL
    THEN h
    ELSE LET h1 == delete_node_keeps_back_link(deref(h, {del_sl_node}),
                                               h.mem[del_sl_node]._prev_layer)
             temp_prev_node == h1.mem[del_sl_node]._prev_node
             nxt == h1.mem[del_sl_node]._next_node
         IN  free([deref(h1, {del_sl_node, temp_prev_node})
                      EXCEPT !.mem[temp_prev_node]._next_node = nxt],
                  del_sl_node)

RECURSIVE _delete_node(_, _)
_delete_node(h, del_sl_node) ==
    IF del_sl_node = NULL
    THEN h
    ELSE LET h1 == _delete_node(deref(h, {del_sl_node}),
                                h.mem[del_sl_node]._prev_layer)
             temp_prev_node == h1.mem[del_sl_node]._prev_node
             nxt == h1.mem[del_sl_node]._next_node
             m1 == [h1.mem EXCEPT ![temp_prev_node]._next_node = nxt]
             m2 == IF nxt # NULL
                   THEN [m1 EXCEPT ![nxt]._prev_node = temp_prev_node]
                   ELSE m1
         IN  free([deref(h1, {del_sl_node, temp_prev_node, nxt}) EXCEPT !.mem = m2],
                  del_sl_node)

\* The backward walk that goes on to the header of the level whatever upward
\* links it passes.
RECURSIVE find_upward_from_header(_, _)
find_upward_from_header(h, temp_node) ==
    IF h.mem[temp_node]._prev_node # NULL
    THEN find_upward_from_header(h, h.mem[temp_node]._prev_node)
    ELSE IF h.mem[temp_node]._prev_layer # NULL
    THEN [h |-> h, temp_node |-> temp_node]
    ELSE LET new_layer == malloc(h)
             t == h.mem[temp_node]
             m1 == [h.mem EXCEPT ![new_layer] =
                       _sl_node(NULL, t._next_node, temp_node, t._next_layer, NULL)]
             m2 == IF t._next_node # NULL
                   THEN [m1 EXCEPT ![t._next_node]._prev_node = new_layer]
                   ELSE m1
             m3 == IF t._next_layer # NULL
                   THEN [m2 EXCEPT ![t._next_layer]._prev_layer = new_layer]
                   ELSE m2
             m4 == [m3 EXCEPT ![temp_node]._next_node = NULL,
                              ![temp_node]._next_layer = new_layer]
         IN  [h |-> [deref(h, {temp_node, t._next_node, t._next_layer})
                        EXCEPT !.mem = m4, !.alloc = h.alloc \cup {new_layer}],
              temp_node |-> new_layer]

\* The while loop of _insert_node: walk backward to a node that has an upward
\* link; at a header without one, put a new header in its place on this level
\* and leave the old header, emptied, as the level above.
RECURSIVE _find_upward(_, _)
_find_upward(h, temp_node) ==
    IF h.mem[temp_node]._prev_layer # NULL
    THEN [h |-> deref(h, {temp_node}), temp_node |-> temp_node]
    ELSE IF h.mem[temp_node]._prev_node = NULL
    THEN LET new_layer == malloc(h)
             t == h.mem[temp_node]
             m1 == [h.mem EXCEPT ![new_layer] =
                       _sl_node(NULL, t._next_node, temp_node, t._next_layer, NULL)]
             m2 == IF t._next_node # NULL
                   THEN [m1 EXCEPT ![t._next_node]._prev_node = new_layer]
                   ELSE m1
             m3 == IF t._next_layer # NULL
                   THEN [m2 EXCEPT ![t._next_layer]._prev_layer = new_layer]
                   ELSE m2
             m4 == [m3 EXCEPT ![temp_node]._next_node = NULL,
                              ![temp_node]._next_layer = new_layer]
         IN  [h |-> [deref(h, {temp_node, t._next_node, t._next_layer})
                        EXCEPT !.mem = m4, !.alloc = h.alloc \cup {new_layer}],
              temp_node |-> new_layer]
    ELSE _find_upward(deref(h, {temp_node}), h.mem[temp_node]._prev_node)

\* The insertion that links the node into its level and never looks at the coin.
insert_node_never_promotes(h, prev_node, next_layer, data, heads) ==
    LET new_node == malloc(h)
        nxt == h.mem[prev_node]._next_node
        m1 == [h.mem EXCEPT
                  ![new_node] = _sl_node(prev_node, nxt, NULL, next_layer, data),
                  ![prev_node]._next_node = new_node]
        m2 == IF nxt # NULL THEN [m1 EXCEPT ![nxt]._prev_node = new_node] ELSE m1
    IN  [h |-> [deref(h, {prev_node, nxt})
                   EXCEPT !.mem = m2, !.alloc = h.alloc \cup {new_node}],
         ret |-> new_node]

\* heads is the number of heads the coin still shows before its first tails.
RECURSIVE _insert_node(_, _, _, _, _)
_insert_node(h, prev_node, next_layer, data, heads) ==
    LET new_node == malloc(h)
        nxt == h.mem[prev_node]._next_node
        m1 == [h.mem EXCEPT
                  ![new_node] = _sl_node(prev_node, nxt, NULL, next_layer, data),
                  ![prev_node]._next_node = new_node]
        m2 == IF nxt # NULL THEN [m1 EXCEPT ![nxt]._prev_node = new_node] ELSE m1
        h2 == [deref(h, {prev_node, nxt})
                  EXCEPT !.mem = m2, !.alloc = h.alloc \cup {new_node}]
    IN  IF _coin_flip(heads) = 1
        THEN LET w == _find_upward(h2, prev_node)
                 temp_node == w.h.mem[w.temp_node]._prev_layer
                 r == _insert_node(w.h, temp_node, new_node, data, heads - 1)
             IN  [h |-> [deref(r.h, {new_node})
                            EXCEPT !.mem[new_node]._prev_layer = r.ret],
                  ret |-> new_node]
        ELSE [h |-> h2, ret |-> new_node]

\* The height reduction that discards one empty header and stops.
reduce_height_once(h, head_node) ==
    IF h.mem[head_node]._next_layer = NULL \/ h.mem[head_node]._next_node # NULL
    THEN [h |-> deref(h, {head_node}), ret |-> head_node]
    ELSE LET temp_next_layer == h.mem[head_node]._next_layer
             h1 == free(deref(h, {head_node}), head_node)
         IN  [h |-> [deref(h1, {temp_next_layer})
                        EXCEPT !.mem[temp_next_layer]._prev_layer = NULL],
              ret |-> temp_next_layer]

\* No height reduction: the top header is kept whatever its level holds.
reduce_height_never(h, head_node) == [h |-> h, ret |-> head_node]

\* The height reduction that leaves the upward link of the new top header.
RECURSIVE reduce_height_keeps_uplink(_, _)
reduce_height_keeps_uplink(h, head_node) ==
    IF h.mem[head_node]._next_layer = NULL \/ h.mem[head_node]._next_node # NULL
    THEN [h |-> deref(h, {head_node}), ret |-> head_node]
    ELSE reduce_height_keeps_uplink(free(deref(h, {head_node}), head_node),
                                    h.mem[head_node]._next_layer)

RECURSIVE _reduce_height(_, _)
_reduce_height(h, head_node) ==
    IF h.mem[head_node]._next_layer = NULL \/ h.mem[head_node]._next_node # NULL
    THEN [h |-> deref(h, {head_node}), ret |-> head_node]
    ELSE LET temp_next_layer == h.mem[head_node]._next_layer
             h1 == free(deref(h, {head_node}), head_node)
         IN  _reduce_height(
                 [deref(h1, {temp_next_layer})
                     EXCEPT !.mem[temp_next_layer]._prev_layer = NULL],
                 temp_next_layer)

\* ---------------------------------------------------------- public calls
skip_list_create(gt) ==
    LET h0 == [mem |-> [a \in Addr |-> Unallocated], alloc |-> {}, bad |-> {}]
        first == malloc(h0)
    IN  [h |-> [mem |-> [h0.mem EXCEPT ![first] = _sl_node(NULL, NULL, NULL, NULL, NULL)],
                alloc |-> {first}, bad |-> {}],
         sl |-> [_first_node |-> first, _gt_func |-> gt, _size |-> 0]]

skip_list_size(s) == s._size

\* The lookup that tests the payload of the predecessor, not of its neighbour.
contains_tests_prev(mem, s, data) ==
    LET prev_node == _find_previous(s._gt_func, mem, s._first_node, data)
    IN  IF mem[prev_node]._next_node = NULL
        THEN 0
        ELSE IF mem[prev_node]._data = data THEN 1 ELSE 0

skip_list_contains(mem, s, data) ==
    LET prev_node == _find_previous(s._gt_func, mem, s._first_node, data)
    IN  IF mem[prev_node]._next_node = NULL
        THEN 0
        ELSE IF mem[mem[prev_node]._next_node]._data = data THEN 1 ELSE 0

\* The removal that forgets to decrement the size.
remove_keeps_size(h, s, data) ==
    LET prev_node == _find_previous(s._gt_func, h.mem, s._first_node, data)
        nxt == h.mem[prev_node]._next_node
    IN  IF nxt = NULL \/ h.mem[nxt]._data # data
        THEN [h |-> h, sl |-> s, ret |-> 0]
        ELSE LET h1 == _delete_node(h, nxt)
                 r == _reduce_height(h1, s._first_node)
             IN  [h |-> r.h, sl |-> [s EXCEPT !._first_node = r.ret], ret |-> 1]

\* The removal that does not store the header _reduce_height returns.
remove_forgets_first_node(h, s, data) ==
    LET prev_node == _find_previous(s._gt_func, h.mem, s._first_node, data)
        nxt == h.mem[prev_node]._next_node
    IN  IF nxt = NULL \/ h.mem[nxt]._data # data
        THEN [h |-> h, sl |-> s, ret |-> 0]
        ELSE LET h1 == _delete_node(h, nxt)
                 r == _reduce_height(h1, s._first_node)
             IN  [h |-> r.h, sl |-> [s EXCEPT !._size = s._size - 1], ret |-> 1]

\* The removal that deletes the neighbour of the predecessor whatever it holds.
remove_ignores_data(h, s, data) ==
    LET prev_node == _find_previous(s._gt_func, h.mem, s._first_node, data)
        nxt == h.mem[prev_node]._next_node
    IN  IF nxt = NULL
        THEN [h |-> h, sl |-> s, ret |-> 0]
        ELSE LET h1 == _delete_node(h, nxt)
                 r == _reduce_height(h1, s._first_node)
             IN  [h |-> r.h,
                  sl |-> [s EXCEPT !._first_node = r.ret, !._size = s._size - 1],
                  ret |-> 1]

\* [h, sl, ret]
skip_list_remove(h, s, data) ==
    LET prev_node == _find_previous(s._gt_func, h.mem, s._first_node, data)
        nxt == h.mem[prev_node]._next_node
    IN  IF nxt = NULL \/ h.mem[nxt]._data # data
        THEN [h |-> h, sl |-> s, ret |-> 0]
        ELSE LET h1 == _delete_node(h, nxt)
                 r == _reduce_height(h1, s._first_node)
             IN  [h |-> r.h,
                  sl |-> [s EXCEPT !._first_node = r.ret, !._size = s._size - 1],
                  ret |-> 1]

\* _delete_skip_list without the write that cuts the link from the node above.
RECURSIVE delete_skip_list_keeps_link(_, _)
delete_skip_list_keeps_link(h, current_node) ==
    IF current_node = NULL THEN h
    ELSE LET h1 == delete_skip_list_keeps_link(deref(h, {current_node}),
                                               h.mem[current_node]._next_layer)
             h2 == delete_skip_list_keeps_link(deref(h1, {current_node}),
                                               h1.mem[current_node]._next_node)
         IN  free(deref(h2, {current_node}), current_node)

\* Frees current_node after everything below it and everything after it; each
\* field is read when the code reads it, after the calls made before.
RECURSIVE _delete_skip_list(_, _)
_delete_skip_list(h, current_node) ==
    IF current_node = NULL THEN h
    ELSE LET h1 == _delete_skip_list(deref(h, {current_node}),
                                     h.mem[current_node]._next_layer)
             h2 == _delete_skip_list(deref(h1, {current_node}),
                                     h1.mem[current_node]._next_node)
             up == h2.mem[current_node]._prev_layer
             h3 == IF up # NULL
                   THEN [deref(h2, {current_node, up})
                            EXCEPT !.mem[up]._next_layer = NULL]
                   ELSE deref(h2, {current_node})
         IN  free(h3, current_node)

\* [h, ret]; the container itself is given up with the call
skip_list_destroy(h, s) ==
    [h |-> _delete_skip_list(h, s._first_node), ret |-> 0]

\* [h, sl, ret, flips]; flips counts the calls of _coin_flip
skip_list_insert(h, s, data, heads) ==
    LET prev_node == _find_previous(s._gt_func, h.mem, s._first_node, data)
        nxt == h.mem[prev_node]._next_node
    IN  IF nxt # NULL /\ h.mem[nxt]._data = data
        THEN [h |-> h, sl |-> s, ret |-> 0, flips |-> 0]
        ELSE LET r == _insert_node(h, prev_node, NULL, data, heads)
             IN  [h |-> r.h, sl |-> [s EXCEPT !._size = s._size + 1],
                  ret |-> 1, flips |-> heads + 1]

\* ------------------------------------------------------- address renaming
\* The nodes met from n along the link f, at most k of them.
RECURSIVE Chain(_, _, _, _)
Chain(mem, n, f, k) ==
    IF n = NULL \/ k = 0 THEN <<>> ELSE <<n>> \o Chain(mem, mem[n][f], f, k - 1)

\* The headers below and including first, topmost first.
Headers(mem, first) == Chain(mem, first, "_next_layer", MaxNodes)

\* The header of a level followed by the nodes of the level.
Row(mem, head) == Chain(mem, head, "_next_node", MaxNodes)

RECURSIVE Flatten(_)
Flatten(ss) == IF ss = <<>> THEN <<>> ELSE Head(ss) \o Flatten(Tail(ss))

RECURSIVE Dedup(_, _)
Dedup(s, seen) ==
    IF s = <<>> THEN <<>>
    ELSE IF Head(s) \in seen THEN Dedup(Tail(s), seen)
    ELSE <<Head(s)>> \o Dedup(Tail(s), seen \cup {Head(s)})

RECURSIVE Sorted(_)
Sorted(S) ==
    IF S = {} THEN <<>>
    ELSE LET m == CHOOSE a \in S : \A b \in S : a <= b
         IN  <<m>> \o Sorted(S \ {m})

Range(s) == {s[i] : i \in DOMAIN s}

\* The code never orders or prints node addresses, so a heap is kept up to a
\* renaming of them: the nodes reached from first take the addresses 1, 2, ...
\* in the order of a walk over the levels, then come the other allocated
\* nodes, then the unused addresses.
Canon(h, first) ==
    LET hs == Headers(h.mem, first)
        walk == Dedup(Flatten([i \in DOMAIN hs |-> Row(h.mem, hs[i])]), {})
        live == walk \o Sorted(h.alloc \ Range(walk))
        order == live \o Sorted(Addr \ Range(live))
        to(a) == IF a = NULL THEN NULL ELSE CHOOSE i \in DOMAIN order : order[i] = a
        move(n) == _sl_node(to(n._prev_node), to(n._next_node), to(n._prev_layer),
                            to(n._next_layer), n._data)
    IN  [mem |-> [i \in Addr |-> move(h.mem[order[i]])],
         alloc |-> {to(a) : a \in h.alloc},
         bad |-> h.bad,
         first |-> to(first)]

\* The renaming after a call with result r. A call that returns 0 has changed
\* nothing, and the heap it found had been renamed: the renaming would give
\* the same heap again.
Renamed(r) ==
    IF r.ret = 0
    THEN [mem |-> r.h.mem, alloc |-> r.h.alloc, bad |-> r.h.bad,
          first |-> r.sl._first_node]
    ELSE Canon(r.h, r.sl._first_node)

\* ----------------------------------------------------------------- state
\* levels is the number of levels the structure had when the call began.
Call(op, arg, ret, flips, levels) ==
    [op |-> op, arg |-> arg, ret |-> ret, flips |-> flips, levels |-> levels]

\* The locals of a call: cur is temp_node / current_node / head_node, stack
\* holds the nodes of the pending recursive calls, levels is the number of
\* levels when the call began.
Frame(op, data, cur, stack, flips, levels) ==
    [op |-> op, data |-> data, cur |-> cur, stack |-> stack, flips |-> flips,
     levels |-> levels]

NoFrame == Frame("none", NULL, NULL, <<>>, 0, 0)

InitWith(gt) ==
    LET c == skip_list_create(gt)
    IN  /\ pc = "idle"
        /\ frame = NoFrame
        /\ heap = c.h.mem
        /\ allocated = c.h.alloc
        /\ sl = c.sl
        /\ abs = {}
        /\ last = Call("create", NULL, 0, 0, 0)
        /\ fault = c.h.bad

\* The list of main: payloads are integers under fifo_gt, a strict total order.
Init == InitWith("fifo_gt")

\* A list created with key_gt, under which two distinct payloads tie.
InitTies == InitWith("key_gt")

NumLevels == Len(Headers(heap, sl._first_node))

\* The memory as the helpers take it, with no fault recorded yet.
Heap == [mem |-> heap, alloc |-> allocated, bad |-> {}]

\* No call is made on a container after skip_list_destroy.
Alive == last.op # "destroy"

Insert ==
    \E data \in Payload, heads \in Coins :
        /\ Alive
        /\ sl._size < MaxSize
        /\ \E r \in {skip_list_insert(Heap, sl, data, heads)} :
           \E c \in {Renamed(r)} :
               /\ heap' = c.mem
               /\ allocated' = c.alloc
               /\ sl' = [r.sl EXCEPT !._first_node = c.first]
               /\ abs' = abs \cup {data}
               /\ fault' = fault \cup c.bad
               /\ last' = Call("insert", data, r.ret, r.flips, NumLevels)
               /\ UNCHANGED <<pc, frame>>

Remove ==
    \E data \in Payload :
        /\ Alive
        /\ \E r \in {skip_list_remove(Heap, sl, data)} :
           \E c \in {Renamed(r)} :
               /\ heap' = c.mem
               /\ allocated' = c.alloc
               /\ sl' = [r.sl EXCEPT !._first_node = c.first]
               /\ abs' = abs \ {data}
               /\ fault' = fault \cup c.bad
               /\ last' = Call("remove", data, r.ret, 0, NumLevels)
               /\ UNCHANGED <<pc, frame>>

Contains ==
    \E data \in Payload :
        /\ Alive
        /\ last' = Call("contains", data, skip_list_contains(heap, sl, data), 0, NumLevels)
        /\ UNCHANGED <<heap, allocated, sl, abs, fault, pc, frame>>

Size ==
    /\ Alive
    /\ last' = Call("size", NULL, skip_list_size(sl), 0, NumLevels)
    /\ UNCHANGED <<heap, allocated, sl, abs, fault, pc, frame>>

Destroy ==
    /\ Alive
    /\ \E r \in {skip_list_destroy(Heap, sl)} :
           /\ heap' = r.h.mem
           /\ allocated' = r.h.alloc
           /\ fault' = fault \cup r.h.bad
           /\ last' = Call("destroy", NULL, r.ret, 0, NumLevels)
    /\ UNCHANGED <<sl, abs, pc, frame>>

Next == Insert \/ Remove \/ Contains \/ Size \/ Destroy

Spec == Init /\ [][Next]_vars

SpecTies == InitTies /\ [][Next]_vars

\* ------------------------------------------------ the calls step by step
\* The same calls with every loop iteration, recursive call and return a step
\* of its own, and the coin flipped when the code flips it. The addresses are
\* renamed when a call begins, not when it returns; while a call runs, last
\* tells of no call.
Begin ==
    /\ pc = "idle" /\ Alive
    /\ \E c \in {Canon(Heap, sl._first_node)} :
           /\ heap' = c.mem
           /\ allocated' = c.alloc
           /\ sl' = [sl EXCEPT !._first_node = c.first]
           /\ \E op \in {"contains", "remove", "insert"}, data \in Payload :
                  /\ (op = "insert") => sl._size < MaxSize
                  /\ frame' = Frame(op, data, c.first, <<>>, 0, NumLevels)
    /\ pc' = "_find_previous"
    /\ last' = Call("running", NULL, 0, 0, 0)
    /\ UNCHANGED <<abs, fault>>

\* The call returns ret and leaves the container s.
Return(s, ret) ==
    /\ sl' = s
    /\ abs' = IF frame.op = "insert" THEN abs \cup {frame.data}
              ELSE IF frame.op = "remove" THEN abs \ {frame.data}
              ELSE abs
    /\ last' = Call(frame.op, frame.data, ret, frame.flips, frame.levels)
    /\ pc' = "idle"
    /\ frame' = NoFrame
    /\ UNCHANGED <<heap, allocated, fault>>

\* The condition of the while loop of _find_previous.
ScanCond ==
    /\ heap[frame.cur]._next_node # NULL
    /\ gt_func(sl._gt_func, frame.data, heap[heap[frame.cur]._next_node]._data)

ScanForward ==
    /\ pc = "_find_previous" /\ ScanCond
    /\ frame' = [frame EXCEPT !.cur = heap[frame.cur]._next_node]
    /\ UNCHANGED <<heap, allocated, sl, abs, last, fault, pc>>

\* The descent that starts again from the top header.
ScanDownRestarts ==
    /\ pc = "_find_previous" /\ ~ScanCond
    /\ heap[frame.cur]._next_layer # NULL
    /\ frame' = [frame EXCEPT !.cur = sl._first_node]
    /\ UNCHANGED <<heap, allocated, sl, abs, last, fault, pc>>

ScanDown ==
    /\ pc = "_find_previous" /\ ~ScanCond
    /\ heap[frame.cur]._next_layer # NULL
    /\ frame' = [frame EXCEPT !.cur = heap[frame.cur]._next_layer]
    /\ UNCHANGED <<heap, allocated, sl, abs, last, fault, pc>>

ScanReturn ==
    /\ pc = "_find_previous" /\ ~ScanCond
    /\ heap[frame.cur]._next_layer = NULL
    /\ pc' = frame.op
    /\ UNCHANGED <<heap, allocated, sl, abs, last, fault, frame>>

\* The neighbour of the predecessor holds the very payload asked for.
NextIsData ==
    /\ heap[frame.cur]._next_node # NULL
    /\ heap[heap[frame.cur]._next_node]._data = frame.data

ContainsReturn ==
    /\ pc = "contains"
    /\ Return(sl, IF NextIsData THEN 1 ELSE 0)

RemoveAbsent ==
    /\ pc = "remove" /\ ~NextIsData
    /\ Return(sl, 0)

RemoveFound ==
    /\ pc = "remove" /\ NextIsData
    /\ pc' = "_delete_node"
    /\ frame' = [frame EXCEPT !.cur = heap[frame.cur]._next_node]
    /\ UNCHANGED <<heap, allocated, sl, abs, last, fault>>

\* _delete_node calls itself on the node above before it unlinks its own.
DeleteCall ==
    /\ pc = "_delete_node" /\ frame.cur # NULL
    /\ frame' = [frame EXCEPT !.cur = heap[frame.cur]._prev_layer,
                              !.stack = Append(frame.stack, frame.cur)]
    /\ UNCHANGED <<heap, allocated, sl, abs, last, fault, pc>>

\* The innermost pending call of _delete_node unlinks and frees its node.
DeleteUnlink ==
    /\ pc = "_delete_node" /\ frame.cur = NULL /\ frame.stack # <<>>
    /\ LET del_sl_node == frame.stack[Len(frame.stack)]
           temp_prev_node == heap[del_sl_node]._prev_node
           nxt == heap[del_sl_node]._next_node
           m1 == [heap EXCEPT ![temp_prev_node]._next_node = nxt]
           m2 == IF nxt # NULL
                 THEN [m1 EXCEPT ![nxt]._prev_node = temp_prev_node]
                 ELSE m1
           h == free([deref(Heap, {del_sl_node, temp_prev_node, nxt})
                         EXCEPT !.mem = m2], del_sl_node)
       IN  /\ heap' = h.mem
           /\ allocated' = h.alloc
           /\ fault' = fault \cup h.bad
    /\ frame' = [frame EXCEPT !.stack = SubSeq(frame.stack, 1, Len(frame.stack) - 1)]
    /\ UNCHANGED <<sl, abs, last, pc>>

DeleteReturn ==
    /\ pc = "_delete_node" /\ frame.cur = NULL /\ frame.stack = <<>>
    /\ pc' = "_reduce_height"
    /\ frame' = [frame EXCEPT !.cur = sl._first_node]
    /\ UNCHANGED <<heap, allocated, sl, abs, last, fault>>

\* The test at the head of _reduce_height.
ReduceCond ==
    heap[frame.cur]._next_layer = NULL \/ heap[frame.cur]._next_node # NULL

ReduceLevel ==
    /\ pc = "_reduce_height" /\ ~ReduceCond
    /\ LET temp_next_layer == heap[frame.cur]._next_layer
           h1 == free(deref(Heap, {frame.cur}), frame.cur)
           h2 == [deref(h1, {temp_next_layer})
                     EXCEPT !.mem[temp_next_layer]._prev_layer = NULL]
       IN  /\ heap' = h2.mem
           /\ allocated' = h2.alloc
           /\ fault' = fault \cup h2.bad
           /\ frame' = [frame EXCEPT !.cur = temp_next_layer]
    /\ UNCHANGED <<sl, abs, last, pc>>

ReduceReturn ==
    /\ pc = "_reduce_height" /\ ReduceCond
    /\ Return([sl EXCEPT !._first_node = frame.cur, !._size = sl._size - 1], 1)

InsertDuplicate ==
    /\ pc = "insert" /\ NextIsData
    /\ Return(sl, 0)

InsertNew ==
    /\ pc = "insert" /\ ~NextIsData
    /\ pc' = "_insert_node"
    /\ UNCHANGED <<heap, allocated, sl, abs, last, fault, frame>>

\* The head of _insert_node: the new node is linked in after cur, above the
\* node the calling _insert_node made.
InsertLink ==
    /\ pc = "_insert_node"
    /\ LET prev_node == frame.cur
           next_layer == IF frame.stack = <<>> THEN NULL
                         ELSE frame.stack[Len(frame.stack)]
           new_node == malloc(Heap)
           nxt == heap[prev_node]._next_node
           m1 == [heap EXCEPT
                     ![new_node] = _sl_node(prev_node, nxt, NULL, next_layer, frame.data),
                     ![prev_node]._next_node = new_node]
           m2 == IF nxt # NULL THEN [m1 EXCEPT ![nxt]._prev_node = new_node] ELSE m1
           h == deref(Heap, {prev_node, nxt})
       IN  /\ heap' = m2
           /\ allocated' = allocated \cup {new_node}
           /\ fault' = fault \cup h.bad
           /\ frame' = [frame EXCEPT !.stack = Append(frame.stack, new_node)]
    /\ pc' = "_coin_flip"
    /\ UNCHANGED <<sl, abs, last>>

\* The coin shows heads; it does so at most MaxHeads times in a call.
CoinHeads ==
    /\ pc = "_coin_flip" /\ frame.flips < MaxHeads
    /\ frame' = [frame EXCEPT !.flips = frame.flips + 1]
    /\ pc' = "walk"
    /\ UNCHANGED <<heap, allocated, sl, abs, last, fault>>

CoinTails ==
    /\ pc = "_coin_flip"
    /\ frame' = [frame EXCEPT !.flips = frame.flips + 1]
    /\ pc' = "return"
    /\ UNCHANGED <<heap, allocated, sl, abs, last, fault>>

\* The while loop of _insert_node: one step backward.
WalkBack ==
    /\ pc = "walk"
    /\ heap[frame.cur]._prev_layer = NULL /\ heap[frame.cur]._prev_node # NULL
    /\ frame' = [frame EXCEPT !.cur = heap[frame.cur]._prev_node]
    /\ UNCHANGED <<heap, allocated, sl, abs, last, fault, pc>>

\* At a header without upward link: a new header takes its place on this
\* level, the old one becomes the level above, and the loop breaks.
WalkNewLayer ==
    /\ pc = "walk"
    /\ heap[frame.cur]._prev_layer = NULL /\ heap[frame.cur]._prev_node = NULL
    /\ LET temp_node == frame.cur
           new_layer == malloc(Heap)
           t == heap[temp_node]
           m1 == [heap EXCEPT ![new_layer] =
                     _sl_node(NULL, t._next_node, temp_node, t._next_layer, NULL)]
           m2 == IF t._next_node # NULL
                 THEN [m1 EXCEPT ![t._next_node]._prev_node = new_layer]
                 ELSE m1
           m3 == IF t._next_layer # NULL
                 THEN [m2 EXCEPT ![t._next_layer]._prev_layer = new_layer]
                 ELSE m2
           h == deref(Heap, {temp_node, t._next_node, t._next_layer})
       IN  /\ heap' = [m3 EXCEPT ![temp_node]._next_node = NULL,
                                 ![temp_node]._next_layer = new_layer]
           /\ allocated' = allocated \cup {new_layer}
           /\ fault' = fault \cup h.bad
           /\ frame' = [frame EXCEPT !.cur = new_layer]
    /\ pc' = "up"
    /\ UNCHANGED <<sl, abs, last>>

\* The loop ends at a node that has an upward link.
WalkStop ==
    /\ pc = "walk"
    /\ heap[frame.cur]._prev_layer # NULL
    /\ pc' = "up"
    /\ UNCHANGED <<heap, allocated, sl, abs, last, fault, frame>>

\* temp_node = temp_node->_prev_layer, then the recursive call.
WalkUp ==
    /\ pc = "up"
    /\ frame' = [frame EXCEPT !.cur = heap[frame.cur]._prev_layer]
    /\ pc' = "_insert_node"
    /\ UNCHANGED <<heap, allocated, sl, abs, last, fault>>

\* A recursive _insert_node returns its node, which the caller stores in the
\* upward link of its own.
InsertNodeReturn ==
    /\ pc = "return" /\ Len(frame.stack) > 1
    /\ LET upper == frame.stack[Len(frame.stack)]
           new_node == frame.stack[Len(frame.stack) - 1]
       IN  /\ heap' = [heap EXCEPT ![new_node]._prev_layer = upper]
           /\ fault' = fault \cup deref(Heap, {new_node}).bad
    /\ frame' = [frame EXCEPT !.stack = SubSeq(frame.stack, 1, Len(frame.stack) - 1)]
    /\ UNCHANGED <<allocated, sl, abs, last, pc>>

InsertReturn ==
    /\ pc = "return" /\ Len(frame.stack) = 1
    /\ Return([sl EXCEPT !._size = sl._size + 1], 1)

\* The steps that follow from the code alone, with no client and no coin.
Progress ==
    \/ ScanForward \/ ScanDown \/ ScanReturn
    \/ ContainsReturn
    \/ RemoveAbsent \/ RemoveFound
    \/ DeleteCall \/ DeleteUnlink \/ DeleteReturn
    \/ ReduceLevel \/ ReduceReturn
    \/ InsertDuplicate \/ InsertNew \/ InsertLink
    \/ WalkBack \/ WalkNewLayer \/ WalkStop \/ WalkUp
    \/ InsertNodeReturn \/ InsertReturn

NextSteps == Begin \/ Progress \/ CoinHeads \/ CoinTails

\* A call in progress goes on, and a coin that is flipped again and again
\* comes up tails at some flip; nothing makes the client call.
Fairness == WF_vars(Progress) /\ SF_vars(CoinTails)

SpecSteps == Init /\ [][NextSteps]_vars /\ Fairness

\* ------------------------------------------------------------- observers
\* The payloads read along the forward chain of the level that head starts.
LevelData(mem, head) ==
    LET row == Tail(Row(mem, head))
    IN  [i \in DOMAIN row |-> mem[row[i]]._data]

\* The payload sequences of all levels; entry k + 1 is level k, level 0 the base.
Levels(mem, first) ==
    LET hs == Headers(mem, first)
        n == Len(hs)
    IN  [k \in 1 .. n |-> LevelData(mem, hs[n + 1 - k])]

\* The nodes of all levels, each level's header first; entry k + 1 is level k.
Rows(mem, first) ==
    LET hs == Headers(mem, first)
        n == Len(hs)
    IN  [k \in 1 .. n |-> Row(mem, hs[n + 1 - k])]

\* The element nodes of the level whose row is given.
Elements(row) == Range(Tail(row))

\* The node a chain of downward links from n ends at.
Bottom(mem, n) ==
    LET c == Chain(mem, n, "_next_layer", MaxNodes) IN c[Len(c)]

\* The nodes reached from the nodes in todo by forward and downward links.
RECURSIVE Reach(_, _, _)
Reach(mem, todo, seen) ==
    IF todo = {} THEN seen
    ELSE LET new == seen \cup todo
             nxt == {mem[n]._next_node : n \in todo}
                        \cup {mem[n]._next_layer : n \in todo}
         IN  Reach(mem, (nxt \ {NULL}) \ new, new)

NoRepeat(s) == \A i, j \in DOMAIN s : s[i] = s[j] => i = j

Level0(mem, first) == Levels(mem, first)[1]

Stored(mem, first) == Range(Level0(mem, first))

RECURSIVE IsSubseq(_, _)
IsSubseq(s, t) ==
    IF s = <<>> THEN TRUE
    ELSE IF t = <<>> THEN FALSE
    ELSE IF Head(s) = Head(t) THEN IsSubseq(Tail(s), Tail(t))
    ELSE IsSubseq(s, Tail(t))

RECURSIVE Without(_, _)
Without(s, x) ==
    IF s = <<>> THEN <<>>
    ELSE IF Head(s) = x THEN Without(Tail(s), x)
    ELSE <<Head(s)>> \o Without(Tail(s), x)

\* s with its i-th entry taken out.
RemoveAt(s, i) == SubSeq(s, 1, i - 1) \o SubSeq(s, i + 1, Len(s))

\* new is old with p put in at the place the order gives it: after elements
\* strictly before p and in front of an element that is not.
InsertedInOrder(gt, old, new, p) ==
    \E i \in 1 .. Len(new) :
        /\ new[i] = p
        /\ RemoveAt(new, i) = old
        /\ \A j \in 1 .. (i - 1) : gt_func(gt, p, new[j])
        /\ i < Len(new) => ~gt_func(gt, p, new[i + 1])

Max(a, b) == IF a > b THEN a ELSE b

OrderEqual(gt, a, b) == ~gt_func(gt, a, b) /\ ~gt_func(gt, b, a)

\* ---------------------------------------------------------------- claims
\* The claims about the structure speak of a container that exists: they are
\* stated for the states before skip_list_destroy.
\* C1: under a comparison that strictly orders distinct payloads,
\* skip_list_contains(x) returns 1 exactly when x is in the set obtained by
\* replaying the insert and remove calls on a mathematical set, whatever the
\* coins showed.
C1_ContainsIsMembership ==
    Alive =>
        \A x \in Payload : (skip_list_contains(heap, sl, x) = 1) <=> (x \in abs)

C1_Witness ==
    /\ last.op = "contains" /\ last.ret = 1
    /\ abs # {} /\ abs # Payload
    /\ NumLevels > 1
    /\ \E x \in Payload \ abs : skip_list_contains(heap, sl, x) = 0

\* C2: walking level 0 from its header yields payloads strictly increasing
\* under the comparison: greater(b, a) for each adjacent pair a then b.
C2_Level0StrictlyIncreasing ==
    LET s == Level0(heap, sl._first_node)
    IN  Alive => \A i \in 1 .. (Len(s) - 1) : gt_func(sl._gt_func, s[i + 1], s[i])

C2_Witness ==
    /\ Len(Level0(heap, sl._first_node)) = MaxSize
    /\ NumLevels > 1
    /\ last.op = "insert" /\ last.ret = 1

\* C3: for every level k > 0 the payloads of level k are a subsequence, in
\* the same relative order, of the payloads of level k - 1.
C3_LevelsAreSubsequences ==
    LET ls == Levels(heap, sl._first_node)
    IN  Alive => \A k \in 2 .. Len(ls) : IsSubseq(ls[k], ls[k - 1])

C3_Witness ==
    LET ls == Levels(heap, sl._first_node)
    IN  /\ Len(ls) >= 3
        /\ Len(ls[2]) >= 2
        /\ Len(ls[3]) >= 1
        /\ Len(ls[3]) < Len(ls[2])

\* C4: skip_list_size returns the number of non-header nodes on level 0, after
\* successful and failed calls alike.
C4_SizeIsLevel0Count ==
    Alive => skip_list_size(sl) = Len(Level0(heap, sl._first_node))

C4_Witness ==
    /\ last.op \in {"insert", "remove"} /\ last.ret = 0
    /\ skip_list_size(sl) >= 2

\* C5: skip_list_insert(p) while the very same payload p is stored returns 0
\* and leaves the size, the payload sequence of every level and the number of
\* levels unchanged; no node is allocated and no coin is flipped.
C5_DuplicateInsertIsNoOp ==
    [][(last'.op = "insert" /\ last'.arg \in Stored(heap, sl._first_node))
        => /\ last'.ret = 0
           /\ sl'._size = sl._size
           /\ Levels(heap', sl'._first_node) = Levels(heap, sl._first_node)
           /\ allocated' = allocated
           /\ last'.flips = 0]_vars

\* C6: skip_list_remove(p) while p is not stored returns 0 and leaves the
\* size, every node's links, the number of levels and the container's top
\* header unchanged.
C6_AbsentRemoveIsNoOp ==
    [][(last'.op = "remove" /\ last'.arg \notin Stored(heap, sl._first_node))
        => /\ last'.ret = 0
           /\ sl' = sl
           /\ heap' = heap
           /\ allocated' = allocated
           /\ NumLevels' = NumLevels]_vars

C6_Witness ==
    /\ last.op = "remove" /\ last.ret = 0
    /\ last.arg \notin Stored(heap, sl._first_node)
    /\ NumLevels > 1
    /\ \E a, b \in Stored(heap, sl._first_node) : a < last.arg /\ last.arg < b

\* C7: once every stored element has been removed the structure is a single
\* level: the top header has no downward link, no upward link and no forward
\* neighbour, and the size is 0.
C7_EmptyListIsOneLevel ==
    (Alive /\ Level0(heap, sl._first_node) = <<>>)
        => /\ NumLevels = 1
           /\ heap[sl._first_node]._next_layer = NULL
           /\ heap[sl._first_node]._prev_layer = NULL
           /\ heap[sl._first_node]._next_node = NULL
           /\ skip_list_size(sl) = 0

C7_Witness ==
    /\ last.op = "remove" /\ last.ret = 1
    /\ last.levels = MaxHeads + 1
    /\ Level0(heap, sl._first_node) = <<>>

\* C8: skip_list_contains(t) returns 1 exactly when some stored element is
\* equal to t under the order relation, also when t is another payload than
\* the stored element it is order-equal to.
C8_ContainsIsOrderEquality ==
    Alive =>
        \A t \in Payload :
            (skip_list_contains(heap, sl, t) = 1)
                <=> (\E e \in Stored(heap, sl._first_node) :
                        OrderEqual(sl._gt_func, t, e))

\* C9: skip_list_insert(p) while a stored element e, another payload than p,
\* is order-equal to p returns 0 and leaves the size and every level
\* unchanged.
C9_OrderEqualInsertRejected ==
    [][(/\ last'.op = "insert"
        /\ \E e \in Stored(heap, sl._first_node) :
               e # last'.arg /\ OrderEqual(sl._gt_func, last'.arg, e))
        => /\ last'.ret = 0
           /\ sl'._size = sl._size
           /\ Levels(heap', sl'._first_node) = Levels(heap, sl._first_node)]_vars

\* C10: skip_list_remove(p) for a stored payload p returns 1; afterwards the
\* size is one less, no level holds p, and every level that remains reads as
\* it did before with p deleted; a level that is gone held nothing but p.
C10_RemoveDeletesColumn ==
    [][(last'.op = "remove" /\ last'.arg \in Stored(heap, sl._first_node))
        => LET old == Levels(heap, sl._first_node)
               new == Levels(heap', sl'._first_node)
           IN  /\ last'.ret = 1
               /\ sl'._size = sl._size - 1
               /\ Len(new) <= Len(old)
               /\ \A k \in 1 .. Len(new) : new[k] = Without(old[k], last'.arg)
               /\ \A k \in (Len(new) + 1) .. Len(old) :
                      Without(old[k], last'.arg) = <<>>]_vars

\* C11: skip_list_destroy, called in any state the calls can reach, frees
\* every header and every element node exactly once: nothing stays allocated,
\* nothing is freed twice and no freed node is read on the way, columns of
\* several levels included.
C11_DestroyFreesEachNodeOnce ==
    /\ (last.op = "destroy") => (allocated = {} /\ fault = {})
    /\ Alive => LET r == skip_list_destroy(Heap, sl)
                IN  r.h.alloc = {} /\ r.h.bad = {}

C11_Witness ==
    /\ last.op = "destroy" /\ last.levels = MaxHeads + 1
    /\ sl._size = MaxSize
    /\ allocated = {}

\* C12: _find_previous(first node, t) returns a node of level 0: the last
\* element e of level 0 with greater(t, e), or the header of level 0 when
\* there is none; the node after the returned one, if any, is the first
\* element of level 0 that is not strictly before t.
C12_FindPreviousIsLevel0Predecessor ==
    Alive =>
        \A t \in Payload :
            LET hs == Headers(heap, sl._first_node)
                row == Row(heap, hs[Len(hs)])
                before == {i \in 2 .. Len(row) :
                              gt_func(sl._gt_func, t, heap[row[i]]._data)}
                r == _find_previous(sl._gt_func, heap, sl._first_node, t)
            IN  /\ r \in Range(row)
                /\ r = IF before = {} THEN row[1]
                       ELSE row[CHOOSE i \in before : \A j \in before : j <= i]
                /\ \A i \in 1 .. Len(row) :
                       row[i] = r =>
                           /\ before = 2 .. i
                           /\ heap[r]._next_node =
                                  (IF i < Len(row) THEN row[i + 1] ELSE NULL)

\* A structure of several levels in which the search for some payload ends on
\* an element of level 0 that has elements after it, and the search for
\* another ends on the header.
C12_Witness ==
    /\ Alive /\ NumLevels = MaxHeads + 1 /\ sl._size = MaxSize
    /\ \E t \in Payload :
           LET r == _find_previous(sl._gt_func, heap, sl._first_node, t)
           IN  /\ heap[r]._prev_node # NULL
               /\ heap[r]._next_node # NULL
               /\ heap[r]._next_layer = NULL
    /\ \E t \in Payload :
           heap[_find_previous(sl._gt_func, heap, sl._first_node, t)]._prev_node = NULL

\* C13: a successful skip_list_insert(p) whose coin shows h heads and then
\* tails puts p on the levels 0 .. h and on no other: one new node on each,
\* at the place the order gives it; every level reads otherwise as before,
\* and the number of levels becomes the larger of the old number and h + 1.
C13_InsertPlacesColumn ==
    [][(last'.op = "insert" /\ last'.ret = 1)
        => \E old \in {Levels(heap, sl._first_node)},
              new \in {Levels(heap', sl'._first_node)},
              h \in {last'.flips - 1} :
               /\ Len(new) = Max(Len(old), h + 1)
               /\ Cardinality(allocated') =
                      Cardinality(allocated) + (h + 1) + (Len(new) - Len(old))
               /\ \A k \in 1 .. Len(new) :
                      \E o \in {IF k <= Len(old) THEN old[k] ELSE <<>>} :
                          IF k <= h + 1
                          THEN InsertedInOrder(sl._gt_func, o, new[k], last'.arg)
                          ELSE new[k] = o]_vars

\* An insert whose coin showed MaxHeads heads into a structure of two levels
\* that held two elements: the column passes an existing level and a new
\* level is made for its top.
C13_Witness ==
    /\ last.op = "insert" /\ last.ret = 1
    /\ last.flips = MaxHeads + 1 /\ last.levels = 2
    /\ NumLevels = MaxHeads + 1
    /\ sl._size = MaxSize

\* C14: every element node on a level k > 0 has a downward link to a node of
\* level k - 1 that holds the same payload and whose upward link points back
\* to it; its chain of downward links ends at a node of level 0 with the same
\* payload; and no payload occurs more than once on any level.
C14_ColumnsLinkedAndUnique ==
    Alive =>
        LET rows == Rows(heap, sl._first_node)
            ls == Levels(heap, sl._first_node)
        IN  /\ \A k \in 2 .. Len(rows) :
                   \A n \in Elements(rows[k]) :
                       LET d == heap[n]._next_layer
                           b == Bottom(heap, n)
                       IN  /\ d \in Elements(rows[k - 1])
                           /\ heap[d]._data = heap[n]._data
                           /\ heap[d]._prev_layer = n
                           /\ b \in Elements(rows[1])
                           /\ heap[b]._data = heap[n]._data
            /\ \A k \in 1 .. Len(ls) : NoRepeat(ls[k])

\* C15: the container's first node is a header: no payload, no backward link,
\* no upward link. Its downward links pass one header per level, each without
\* payload and without backward link, the upward link of each pointing back
\* to the header above, and end at a header with no downward link. Every
\* element node is reached by forward links from the header of its level.
C15_HeaderChain ==
    Alive =>
        LET hs == Headers(heap, sl._first_node)
            rows == Rows(heap, sl._first_node)
            top == heap[sl._first_node]
        IN  /\ top._data = NULL /\ top._prev_node = NULL /\ top._prev_layer = NULL
            /\ NoRepeat(hs)
            /\ \A i \in 1 .. Len(hs) :
                   /\ hs[i] \in allocated
                   /\ heap[hs[i]]._data = NULL
                   /\ heap[hs[i]]._prev_node = NULL
                   /\ i < Len(hs) => /\ heap[hs[i]]._next_layer = hs[i + 1]
                                     /\ heap[hs[i + 1]]._prev_layer = hs[i]
            /\ heap[hs[Len(hs)]]._next_layer = NULL
            /\ \A n \in allocated \ Range(hs) :
                   \E k \in 1 .. Len(rows) :
                       /\ n \in Elements(rows[k])
                       /\ Len(Chain(heap, n, "_next_layer", MaxNodes)) = k

\* A remove that emptied the top level of the tallest structure and left two
\* levels with elements on them.
C15_Witness ==
    /\ last.op = "remove" /\ last.ret = 1
    /\ last.levels = MaxHeads + 1
    /\ NumLevels = MaxHeads
    /\ sl._size = MaxSize - 1

\* C16: after each completed call every level above level 0 holds at least
\* one element.
C16_UpperLevelsNotEmpty ==
    Alive =>
        LET ls == Levels(heap, sl._first_node)
        IN  \A k \in 2 .. Len(ls) : ls[k] # <<>>

\* A remove took the only element of one or more top levels and left a
\* structure that still has levels above level 0.
C16_Witness ==
    /\ last.op = "remove" /\ last.ret = 1
    /\ last.levels > NumLevels
    /\ NumLevels > 1
    /\ Levels(heap, sl._first_node)[NumLevels] # <<>>

\* C17: the forward and backward links of a level agree: when the forward
\* link of n leads to m, the backward link of m leads to n, and the other way
\* round; every element node has a backward link, and the nodes without one
\* are the headers.
C17_HorizontalLinksAgree ==
    Alive =>
        LET hs == Range(Headers(heap, sl._first_node))
        IN  \A n \in allocated :
                /\ heap[n]._next_node # NULL
                       => /\ heap[n]._next_node \in allocated
                          /\ heap[heap[n]._next_node]._prev_node = n
                /\ heap[n]._prev_node # NULL
                       => /\ heap[n]._prev_node \in allocated
                          /\ heap[heap[n]._prev_node]._next_node = n
                /\ (heap[n]._prev_node = NULL) <=> (n \in hs)

\* A remove took an element that stood between two others, in a structure
\* that keeps elements above level 0.
C17_Witness ==
    /\ last.op = "remove" /\ last.ret = 1
    /\ \E a, b \in Stored(heap, sl._first_node) : a < last.arg /\ last.arg < b
    /\ NumLevels > 1
    /\ last.levels = MaxHeads + 1

\* C18: no insert and no remove reads or writes a node that was freed or
\* frees a node twice, and after each call the nodes allocated and not freed
\* are the nodes reached from the container's first node by forward and
\* downward links: nothing leaks and nothing reachable is freed.
C18_AllocatedIsReachable ==
    Alive =>
        /\ fault = {}
        /\ allocated = Reach(heap, {sl._first_node}, {})

\* A remove freed a column of MaxHeads + 1 nodes and the headers of the levels
\* it emptied, and other elements remain.
C18_Witness ==
    /\ last.op = "remove" /\ last.ret = 1
    /\ last.levels = MaxHeads + 1
    /\ NumLevels = 1
    /\ sl._size = MaxSize - 1
    /\ Cardinality(allocated) = MaxSize

\* The structure that skip_list_insert(p) with the given coins and then
\* skip_list_remove(p) make of the present one.
InsertThenRemove(p, heads) ==
    LET i == skip_list_insert(Heap, sl, p, heads)
        r == skip_list_remove(i.h, i.sl, p)
    IN  [inserted |-> i, removed |-> r]

\* C19: from every reachable structure and for every payload p that is not
\* stored, a successful skip_list_insert(p), whatever the coins show, followed
\* at once by skip_list_remove(p) gives back the size, the number of levels
\* and the payload sequence of every level.
C19_InsertThenRemoveRestores ==
    (Alive /\ sl._size < MaxSize) =>
        \A p \in Payload \ Stored(heap, sl._first_node), heads \in Coins :
            LET ir == InsertThenRemove(p, heads)
            IN  /\ ir.inserted.ret = 1
                /\ ir.removed.ret = 1
                /\ ir.removed.sl._size = sl._size
                /\ Levels(ir.removed.h.mem, ir.removed.sl._first_node)
                       = Levels(heap, sl._first_node)
                /\ Cardinality(ir.removed.h.alloc) = Cardinality(allocated)

\* A structure of two levels and of elements on both sides of an absent
\* payload whose insert with MaxHeads heads makes a new top level, which the
\* remove takes away again.
C19_Witness ==
    /\ Alive /\ sl._size = MaxSize - 1 /\ NumLevels = MaxHeads
    /\ \E p \in Payload \ Stored(heap, sl._first_node) :
           LET ir == InsertThenRemove(p, MaxHeads)
           IN  /\ \E a, b \in Stored(heap, sl._first_node) : a < p /\ p < b
               /\ Len(Headers(ir.inserted.h.mem, ir.inserted.sl._first_node))
                      = MaxHeads + 1
               /\ ir.removed.ret = 1
               /\ Len(Headers(ir.removed.h.mem, ir.removed.sl._first_node))
                      = NumLevels

\* C20: every call of skip_list_contains and of skip_list_remove comes to its
\* end, and so does every call of skip_list_insert when the coin, flipped
\* again and again, comes up tails at some flip. The backward walk of a
\* promotion stays on allocated nodes and comes to its end, at a node with an
\* upward link or at the top header, the only node that has neither a
\* backward nor an upward link.
C20_CallsTerminate ==
    /\ []((pc = "walk") =>
              /\ frame.cur \in allocated
              /\ (heap[frame.cur]._prev_layer = NULL /\ heap[frame.cur]._prev_node = NULL)
                     => frame.cur = sl._first_node)
    /\ []((pc = "up") => heap[frame.cur]._prev_layer \in allocated)
    /\ ((pc = "walk") ~> (pc = "up"))
    /\ ((pc # "idle") ~> (pc = "idle"))

\* An insert whose coin showed MaxHeads heads and then tails, whose walks went
\* backward and made new levels, is about to return.
C20_Witness ==
    /\ pc = "return" /\ frame.op = "insert"
    /\ frame.flips = MaxHeads + 1
    /\ Len(frame.stack) = MaxHeads + 1
    /\ NumLevels > frame.levels
    /\ sl._size = MaxSize - 1

====
